---- MODULE Spec2Model ----
(***************************************************************************)
(* Model of solar_farm_estimator.py: the two calculation functions         *)
(* estimate_peak_sun_hours and calculate_solar_farm_metrics, and the       *)
(* Streamlit script (main plus the module-level footer) that drives them.  *)
(*                                                                         *)
(* Python numbers are IEEE-754 binary64.  The model computes with them     *)
(* exactly as the interpreter does: a finite float is sign, 53-bit         *)
(* significand and exponent, and every operation rounds its exact result   *)
(* to nearest, ties to even.  Significands do not fit TLC's 32-bit         *)
(* integers, so they are kept as little-endian sequences of 15-bit limbs.  *)
(* Exponent overflow and subnormals are not modelled: the inputs are drawn *)
(* from bounded sets whose results stay far inside the normal range.       *)
(*                                                                         *)
(* Spec is the Streamlit application driven through its widgets, CallSpec  *)
(* the functions applied once to arguments of any value, SessionSpec a     *)
(* sequence of calls with changing arguments.                              *)
(***************************************************************************)
EXTENDS Integers, Sequences, FiniteSets, TLC

(***************************************************************************)
(* The state: the module-level dictionary, the sidebar widgets with the    *)
(* locals of main() they are read into, and what the last script run or    *)
(* function call produced.                                                 *)
(***************************************************************************)
VARIABLES
    cities,                          \* the module-level dictionary
    location_method, city,           \* the radio and the selectbox
    in_latitude, in_land_size_m2, in_electricity_price_gbp_per_kwh,
    in_upfront_costs_per_m2, in_annual_running_costs,
                                     \* main's locals of the same names; the arguments of a call
    call,                            \* the last function called, its arguments and its outcome
    rendered,                        \* the elements of the last script run
    prev                             \* an earlier call, remembered for comparison

vars == <<cities, location_method, city, in_latitude, in_land_size_m2, in_electricity_price_gbp_per_kwh,
          in_upfront_costs_per_m2, in_annual_running_costs, call, rendered, prev>>

inputs == <<in_latitude, in_land_size_m2, in_electricity_price_gbp_per_kwh,
            in_upfront_costs_per_m2, in_annual_running_costs>>

(***************************************************************************)
(* Natural numbers of arbitrary size: <<l1, l2, ...>> is                   *)
(* l1 + l2 * LimbBase + ..., without leading (high) zero limbs.            *)
(***************************************************************************)
LimbBits == 10 + 5
LimbBase == 2^LimbBits

RECURSIVE Trim(_)
Trim(n) ==
    IF n = <<>> THEN <<>>
    ELSE IF n[Len(n)] = 0 THEN Trim(SubSeq(n, 1, Len(n) - 1))
    ELSE n

RECURSIVE FromNat(_)
FromNat(k) ==
    IF k = 0 THEN <<>> ELSE <<k % LimbBase>> \o FromNat(k \div LimbBase)

Limb(n, i) == IF i <= Len(n) THEN n[i] ELSE 0

RECURSIVE AddFrom(_, _, _, _)
AddFrom(a, b, i, c) ==
    IF i > Len(a) /\ i > Len(b)
    THEN (IF c = 0 THEN <<>> ELSE <<c>>)
    ELSE <<(Limb(a, i) + Limb(b, i) + c) % LimbBase>>
         \o AddFrom(a, b, i + 1, (Limb(a, i) + Limb(b, i) + c) \div LimbBase)

BigAdd(a, b) == AddFrom(a, b, 1, 0)

\* a - b for a >= b
RECURSIVE SubFrom(_, _, _, _)
SubFrom(a, b, i, c) ==
    IF i > Len(a) THEN <<>>
    ELSE IF Limb(a, i) - Limb(b, i) - c < 0
         THEN <<Limb(a, i) - Limb(b, i) - c + LimbBase>> \o SubFrom(a, b, i + 1, 1)
         ELSE <<Limb(a, i) - Limb(b, i) - c>> \o SubFrom(a, b, i + 1, 0)

BigSub(a, b) == Trim(SubFrom(a, b, 1, 0))

RECURSIVE CmpFrom(_, _, _)
CmpFrom(a, b, i) ==
    IF i = 0 THEN 0
    ELSE IF a[i] > b[i] THEN 1
    ELSE IF a[i] < b[i] THEN -1
    ELSE CmpFrom(a, b, i - 1)

\* -1, 0, 1 as a < b, a = b, a > b
BigCmp(a, b) ==
    IF Len(a) > Len(b) THEN 1
    ELSE IF Len(a) < Len(b) THEN -1
    ELSE CmpFrom(a, b, Len(a))

\* a * k + c for 0 <= k, c < LimbBase
RECURSIVE MulSmallFrom(_, _, _, _)
MulSmallFrom(a, k, i, c) ==
    IF i > Len(a) THEN (IF c = 0 THEN <<>> ELSE <<c>>)
    ELSE <<(a[i] * k + c) % LimbBase>>
         \o MulSmallFrom(a, k, i + 1, (a[i] * k + c) \div LimbBase)

MulSmall(a, k) == Trim(MulSmallFrom(a, k, 1, 0))

RECURSIVE MulFrom(_, _, _)
MulFrom(a, b, j) ==
    IF j > Len(b) THEN <<>>
    ELSE BigAdd(MulSmall(a, b[j]), <<0>> \o MulFrom(a, b, j + 1))

BigMul(a, b) == Trim(MulFrom(a, b, 1))

\* floor(a / d) for 0 < d < LimbBase, from the high limb down; r is the remainder so far
RECURSIVE DivSmallFrom(_, _, _, _)
DivSmallFrom(a, d, i, r) ==
    IF i = 0 THEN <<>>
    ELSE DivSmallFrom(a, d, i - 1, (r * LimbBase + a[i]) % d)
         \o <<(r * LimbBase + a[i]) \div d>>

DivSmall(a, d) == Trim(DivSmallFrom(a, d, Len(a), 0))

Zeros(k) == [i \in 1..k |-> 0]

ShiftLeft(n, k) ==
    IF n = <<>> THEN <<>>
    ELSE Zeros(k \div LimbBits) \o MulSmall(n, 2^(k % LimbBits))

ShiftRight(n, k) ==
    IF k \div LimbBits >= Len(n) THEN <<>>
    ELSE DivSmall(SubSeq(n, k \div LimbBits + 1, Len(n)), 2^(k % LimbBits))

\* n mod 2^k
LowBits(n, k) ==
    IF k \div LimbBits >= Len(n) THEN n
    ELSE Trim(SubSeq(n, 1, k \div LimbBits)
              \o <<n[k \div LimbBits + 1] % 2^(k % LimbBits)>>)

RECURSIVE BitLenSmall(_)
BitLenSmall(x) == IF x = 0 THEN 0 ELSE 1 + BitLenSmall(x \div 2)

BitLen(n) ==
    IF n = <<>> THEN 0 ELSE LimbBits * (Len(n) - 1) + BitLenSmall(n[Len(n)])

IsOdd(n) == n # <<>> /\ n[1] % 2 = 1

\* the quotient digit of r / b, from an underestimate q with r = the remainder it leaves
RECURSIVE FixDigit(_, _, _)
FixDigit(q, r, b) ==
    IF BigCmp(r, b) >= 0 THEN FixDigit(q + 1, BigSub(r, b), b) ELSE <<q, r>>

\* <<floor(r / b), r mod b>> for r < b * LimbBase, where b's high limb is at least
\* LimbBase / 2: the two high limbs of r over b's high limb plus one never overshoot
Digit(r, b) ==
    LET est == (Limb(r, Len(b) + 1) * LimbBase + Limb(r, Len(b))) \div (b[Len(b)] + 1)
    IN FixDigit(est, BigSub(r, MulSmall(b, est)), b)

\* i limbs of long division: st = <<quotient so far, remainder>>, remainder < b
RECURSIVE DivLimbs(_, _, _)
DivLimbs(st, b, i) ==
    IF i = 0 THEN st
    ELSE LET d == Digit(IF st[2] = <<>> THEN <<>> ELSE <<0>> \o st[2], b)
         IN DivLimbs(<<(<<d[1]>> \o st[1]), d[2]>>, b, i - 1)

(***************************************************************************)
(* binary64.  A finite float is [kind |-> "fin", sgn, man, exp] with value *)
(* (-1)^sgn * man * 2^exp and 2^52 <= man < 2^53, or man = <<>> for zero.  *)
(***************************************************************************)
Precision == 50 + 3

Fin(s, m, e) == [kind |-> "fin", sgn |-> s, man |-> m, exp |-> e]
FZero == Fin(0, <<>>, 0)
\* float('inf')
PosInf == [kind |-> "inf", sgn |-> 0, man |-> <<>>, exp |-> 0]

\* the float nearest to (-1)^s * (n + t) * 2^e, where 0 < t < 1 if sticky and t = 0
\* otherwise; ties go to the even significand
AboveHalf(c, n, sh, sticky) == c > 0 \/ (c = 0 /\ (sticky \/ IsOdd(ShiftRight(n, sh))))

RoundUp(n, sh, sticky) ==
    AboveHalf(BigCmp(LowBits(n, sh), ShiftLeft(<<1>>, sh - 1)), n, sh, sticky)

\* a carry out of the rounding leaves one bit too many
Renormalize(s, q, len, e) ==
    IF len > Precision THEN Fin(s, ShiftRight(q, 1), e + 1) ELSE Fin(s, q, e)

Carried(s, q, e) == Renormalize(s, q, BitLen(q), e)

RoundLen(s, n, len, e, sticky) ==
    IF len <= Precision THEN Fin(s, ShiftLeft(n, Precision - len), e - (Precision - len))
    ELSE IF RoundUp(n, len - Precision, sticky)
    THEN Carried(s, BigAdd(ShiftRight(n, len - Precision), <<1>>), e + (len - Precision))
    ELSE Fin(s, ShiftRight(n, len - Precision), e + (len - Precision))

Round(s, n, e, sticky) ==
    IF n = <<>> THEN Fin(s, <<>>, 0) ELSE RoundLen(s, n, BitLen(n), e, sticky)

\* int -> float
FromInt(k) == Round(IF k < 0 THEN 1 ELSE 0, FromNat(IF k < 0 THEN -k ELSE k), 0, FALSE)

IsZero(x) == x.kind = "fin" /\ x.man = <<>>

FNeg(x) == [x EXCEPT !.sgn = 1 - x.sgn]
\* abs()
FAbs(x) == [x EXCEPT !.sgn = 0]

\* x * y
FMul(x, y) == Round((x.sgn + y.sgn) % 2, BigMul(x.man, y.man), x.exp + y.exp, FALSE)

\* limbs of quotient computed by a division, and the shift that fills the divisor's high limb
QuotientLimbs == 2 + 2
FillShift == QuotientLimbs * LimbBits - Precision

\* the first quotient bit: the shifted significands differ by less than a factor of two
FirstDigit(a, b) == IF BigCmp(a, b) >= 0 THEN <<<<1>>, BigSub(a, b)>> ELSE <<<<>>, a>>

Quotient(s, d, e) == Round(s, Trim(d[1]), e, d[2] # <<>>)

DivAligned(s, a, b, e) == Quotient(s, DivLimbs(FirstDigit(a, b), b, QuotientLimbs), e)

\* x / y for y # 0
FDiv(x, y) ==
    IF IsZero(x) THEN Fin((x.sgn + y.sgn) % 2, <<>>, 0)
    ELSE DivAligned((x.sgn + y.sgn) % 2, ShiftLeft(x.man, FillShift), ShiftLeft(y.man, FillShift),
                    x.exp - y.exp - QuotientLimbs * LimbBits)

\* the sum of sx * a * 2^e and sy * b * 2^e, where c compares a with b
AddAligned(sx, a, sy, b, c, e) ==
    IF sx # sy /\ c = 0 THEN FZero
    ELSE Round(IF sx = sy \/ c > 0 THEN sx ELSE sy,
               IF sx = sy THEN BigAdd(a, b) ELSE IF c > 0 THEN BigSub(a, b) ELSE BigSub(b, a),
               e, FALSE)

AlignedCmp(a, b, sx, sy, e) == AddAligned(sx, a, sy, b, BigCmp(a, b), e)

Align(x, y, e) == AlignedCmp(ShiftLeft(x.man, x.exp - e), ShiftLeft(y.man, y.exp - e), x.sgn, y.sgn, e)

\* x + y
FAdd(x, y) ==
    IF IsZero(x) THEN (IF IsZero(y) THEN Fin(IF x.sgn = 1 /\ y.sgn = 1 THEN 1 ELSE 0, <<>>, 0) ELSE y)
    ELSE IF IsZero(y) THEN x
    ELSE Align(x, y, IF x.exp < y.exp THEN x.exp ELSE y.exp)

\* x - y
FSub(x, y) == FAdd(x, FNeg(y))

\* x > y for finite x, y
Positive(d) == ~IsZero(d) /\ d.sgn = 0
FGt(x, y) == Positive(FSub(x, y))

\* x >= y for finite x, y
NonNegative(d) == IsZero(d) \/ d.sgn = 0
FGe(x, y) == NonNegative(FSub(x, y))

\* max(x, y): Python returns the first argument unless the second is greater
FMax(x, y) == IF FGt(y, x) THEN y ELSE x

\* the decimal literal n / 10^k, rounded to the nearest float as the parser does
Dec(n, tenpow) == FDiv(FromInt(n), FromInt(tenpow))

(***************************************************************************)
(* The program.                                                            *)
(***************************************************************************)
CityNames ==
    {"London, UK", "Edinburgh, UK", "Cardiff, UK", "Belfast, UK", "Manchester, UK",
     "Birmingham, UK", "Glasgow, UK", "Liverpool, UK", "Bristol, UK", "Sheffield, UK",
     "New York, USA", "Sydney, Australia", "Tokyo, Japan", "Cape Town, South Africa",
     "Rio de Janeiro, Brazil", "Mumbai, India", "Beijing, China", "Moscow, Russia",
     "Dubai, UAE", "Toronto, Canada"}

\* the latitudes of the cities dictionary, in hundredths of a degree
CityHundredths ==
    [c \in CityNames |->
        CASE c = "London, UK" -> 5150
          [] c = "Edinburgh, UK" -> 5595
          [] c = "Cardiff, UK" -> 5148
          [] c = "Belfast, UK" -> 5460
          [] c = "Manchester, UK" -> 5348
          [] c = "Birmingham, UK" -> 5248
          [] c = "Glasgow, UK" -> 5586
          [] c = "Liverpool, UK" -> 5341
          [] c = "Bristol, UK" -> 5145
          [] c = "Sheffield, UK" -> 5338
          [] c = "New York, USA" -> 4071
          [] c = "Sydney, Australia" -> -3387
          [] c = "Tokyo, Japan" -> 3568
          [] c = "Cape Town, South Africa" -> -3392
          [] c = "Rio de Janeiro, Brazil" -> -2291
          [] c = "Mumbai, India" -> 1908
          [] c = "Beijing, China" -> 3990
          [] c = "Moscow, Russia" -> 5575
          [] c = "Dubai, UAE" -> 2520
          [] c = "Toronto, Canada" -> 4365]

\* the cities dictionary as the module body builds it
CitiesTable == [c \in CityNames |-> Dec(CityHundredths[c], 100)]

\* a function's outcome: its return value, or the exception it raised
Return(v) == [status |-> "ok", value |-> v]
Raise(e, msg) == [status |-> e, value |-> msg]

\* x / y where the divisor is one of the program's literals, none of them zero
TrueDiv(x, y) == FDiv(x, y)

LatitudeLimit == FromInt(90)

\* lines 34-35
PeakSunHours(lat) ==
    FMax(FSub(FromInt(6), TrueDiv(FMul(FromInt(4), lat), FromInt(90))), FromInt(2))

\* fault: the range test of line 32 written with >=
CheckedSunHoursAtLimit(lat) ==
    IF FGe(lat, LatitudeLimit)
    THEN Raise("ValueError", "Latitude must be between -90 and 90 degrees.")
    ELSE Return(PeakSunHours(lat))

\* lines 31-35, lat = abs(latitude)
CheckedSunHours(lat) ==
    IF FGt(lat, LatitudeLimit)
    THEN Raise("ValueError", "Latitude must be between -90 and 90 degrees.")
    ELSE Return(PeakSunHours(lat))

\* fault: line 31 without abs()
EstimateOfSignedLatitude(latitude) == CheckedSunHours(latitude)

estimate_peak_sun_hours(latitude) == CheckedSunHours(FAbs(latitude))

panel_area_per_kw == FromInt(10)
carbon_offset_kg_per_kwh == Dec(5, 10)
avg_home_consumption_kwh == FromInt(3500)
co2_per_car_tonnes == Dec(46, 10)
\* fault: another pitch size
FootballPitchRounded == FromInt(7000)
football_pitch_m2 == FromInt(7140)

\* fault: the guard of line 65 written with >=
ProfitableOrEven(net_annual_profit_gbp) == FGe(net_annual_profit_gbp, FZero)

\* the break-even guard of line 65
Profitable(net_annual_profit_gbp) == FGt(net_annual_profit_gbp, FZero)

(***************************************************************************)
(* calculate_solar_farm_metrics statement by statement.  l is the record   *)
(* of the function's locals so far; l.raised is the exception that has     *)
(* left the function, after which no statement runs.                       *)
(***************************************************************************)
NoOutcome == [status |-> "none", value |-> ""]

Assign(l, name, v) == IF l.raised = NoOutcome THEN l @@ (name :> v) ELSE l

\* a statement whose right-hand side may raise
Try(l, name, outcome) ==
    IF l.raised # NoOutcome THEN l
    ELSE IF outcome.status = "ok" THEN l @@ (name :> outcome.value)
    ELSE [l EXCEPT !.raised = outcome]

Divide(x, y) ==
    IF IsZero(y) THEN Raise("ZeroDivisionError", "float division by zero")
    ELSE Return(FDiv(x, y))

\* line 46
system_size_kw(l) == Assign(l, "system_size_kw", TrueDiv(l.land_size_m2, panel_area_per_kw))
\* fault: line 49 computing the sun hours without the estimator's range check
PshUnchecked(l) == Assign(l, "psh", PeakSunHours(FAbs(l.latitude)))
\* line 49
psh(l) == Try(l, "psh", estimate_peak_sun_hours(l.latitude))
\* line 52
daily_energy_kwh(l) == Assign(l, "daily_energy_kwh", FMul(l.system_size_kw, l.psh))
\* fault: line 55 with a 366-day year
AnnualEnergyLeapYear(l) == Assign(l, "annual_energy_kwh", FMul(l.daily_energy_kwh, FromInt(366)))
\* line 55
annual_energy_kwh(l) == Assign(l, "annual_energy_kwh", FMul(l.daily_energy_kwh, FromInt(365)))
\* line 58
annual_revenue_gbp(l) ==
    Assign(l, "annual_revenue_gbp", FMul(l.annual_energy_kwh, l.electricity_price_gbp_per_kwh))
\* line 61
total_upfront_costs_gbp(l) ==
    Assign(l, "total_upfront_costs_gbp", FMul(l.upfront_costs_per_m2, l.land_size_m2))
\* line 64
net_annual_profit_gbp(l) ==
    Assign(l, "net_annual_profit_gbp", FSub(l.annual_revenue_gbp, l.annual_running_costs))
\* fault: line 65 guarded by the revenue instead of the net profit
BreakEvenGuardedByRevenue(l) ==
    Try(l, "break_even_years",
        IF Profitable(l.annual_revenue_gbp)
        THEN Divide(l.total_upfront_costs_gbp, l.net_annual_profit_gbp)
        ELSE Return(PosInf))
\* line 65
break_even_years(l) ==
    Try(l, "break_even_years",
        IF Profitable(l.net_annual_profit_gbp)
        THEN Divide(l.total_upfront_costs_gbp, l.net_annual_profit_gbp)
        ELSE Return(PosInf))
\* line 68
annual_carbon_offset_tonnes(l) ==
    Assign(l, "annual_carbon_offset_tonnes",
           TrueDiv(FMul(l.annual_energy_kwh, carbon_offset_kg_per_kwh), FromInt(1000)))
\* line 71
pitches_equivalent(l) == Assign(l, "pitches_equivalent", TrueDiv(l.land_size_m2, football_pitch_m2))
\* line 74
number_of_homes(l) ==
    Assign(l, "number_of_homes", TrueDiv(l.annual_energy_kwh, avg_home_consumption_kwh))
\* line 77
equivalent_cars(l) ==
    Assign(l, "equivalent_cars", TrueDiv(l.annual_carbon_offset_tonnes, co2_per_car_tonnes))

\* lines 79-80: the returned tuple, by field name
ReturnTuple(l) ==
    IF l.raised # NoOutcome THEN l.raised
    ELSE Return([annual_energy_kwh |-> l.annual_energy_kwh,
                 annual_revenue_gbp |-> l.annual_revenue_gbp,
                 total_upfront_costs_gbp |-> l.total_upfront_costs_gbp,
                 annual_running_costs |-> l.annual_running_costs,
                 net_annual_profit_gbp |-> l.net_annual_profit_gbp,
                 break_even_years |-> l.break_even_years,
                 annual_carbon_offset_tonnes |-> l.annual_carbon_offset_tonnes,
                 pitches_equivalent |-> l.pitches_equivalent,
                 number_of_homes |-> l.number_of_homes,
                 equivalent_cars |-> l.equivalent_cars])

\* the function's frame on entry: its five parameters
Frame(latitude, land_size_m2, electricity_price_gbp_per_kwh, upfront_costs_per_m2, annual_running_costs) ==
    [latitude |-> latitude, land_size_m2 |-> land_size_m2,
     electricity_price_gbp_per_kwh |-> electricity_price_gbp_per_kwh,
     upfront_costs_per_m2 |-> upfront_costs_per_m2,
     annual_running_costs |-> annual_running_costs, raised |-> NoOutcome]

calculate_solar_farm_metrics(latitude, land_size_m2, electricity_price_gbp_per_kwh, upfront_costs_per_m2, annual_running_costs) ==
    ReturnTuple(
      equivalent_cars(number_of_homes(pitches_equivalent(annual_carbon_offset_tonnes(
        break_even_years(net_annual_profit_gbp(total_upfront_costs_gbp(annual_revenue_gbp(
          annual_energy_kwh(daily_energy_kwh(psh(system_size_kw(
            Frame(latitude, land_size_m2, electricity_price_gbp_per_kwh, upfront_costs_per_m2,
                  annual_running_costs))))))))))))))

\* the five arguments of a call
Args(lat, land, price, upfront, running) ==
    [latitude |-> lat, land_size_m2 |-> land, electricity_price_gbp_per_kwh |-> price,
     upfront_costs_per_m2 |-> upfront, annual_running_costs |-> running]

\* fault: the latitude of the remembered call used again
CalculateStaleLatitude(a) ==
    calculate_solar_farm_metrics(IF prev.fn = "none" THEN a.latitude ELSE prev.args.latitude,
                                 a.land_size_m2, a.electricity_price_gbp_per_kwh,
                                 a.upfront_costs_per_m2, a.annual_running_costs)

Calculate(a) ==
    calculate_solar_farm_metrics(a.latitude, a.land_size_m2, a.electricity_price_gbp_per_kwh,
                                 a.upfront_costs_per_m2, a.annual_running_costs)

(***************************************************************************)
(* The Streamlit script.  One run of the script renders a sequence of      *)
(* elements; an element is the st function called, the text it is given    *)
(* and the numbers formatted into that text.  Sidebar widgets are the      *)
(* variables below, and only main-area elements are recorded.              *)
(***************************************************************************)
El(fn, text, nums) == [fn |-> fn, text |-> text, nums |-> nums]

\* lines 104-105
Header ==
    <<El("title", "Solar Farm Estimator", <<>>),
      El("write", "Estimate the potential of your solar farm by adjusting the parameters.", <<>>)>>

\* lines 157-164, run after main() returns
Footer ==
    [i \in 1..6 |-> El("write", " ", <<>>)]
    \o <<El("write", "Solar Farm Estimator (c) Created by Tom Loosley, Published in 2025", <<>>),
         El("markdown", "Found a problem? Report an issue", <<>>)>>

\* 15 GBP/kW/year on 10 m2/kW, lines 100 and 113
SuggestedRunningCosts(land) == FMul(FromInt(15), TrueDiv(land, FromInt(10)))

\* lines 112-148: what the try block renders once the metrics are unpacked
Results(land, m) ==
    <<El("write", "Note: suggested annual running costs", <<land, SuggestedRunningCosts(land)>>),
      El("subheader", "Results", <<>>),
      El("metric", "Annual Energy Yield", <<m.annual_energy_kwh>>),
      El("metric", "Annual Revenue", <<m.annual_revenue_gbp>>),
      El("metric", "Total Upfront Costs", <<m.total_upfront_costs_gbp>>),
      El("metric", "Annual Running Costs", <<m.annual_running_costs>>),
      El("metric", "Net Annual Profit", <<m.net_annual_profit_gbp>>),
      IF m.break_even_years # PosInf
      THEN El("metric", "Break-Even Time", <<m.break_even_years>>)
      ELSE El("metric", "Break-Even Time: Never", <<>>),
      El("metric", "Carbon Offset", <<m.annual_carbon_offset_tonnes>>),
      El("write", "Land Size Equivalent", <<m.pitches_equivalent>>),
      El("write", "Homes Powered", <<m.number_of_homes>>),
      El("write", "Environmental Impact", <<m.equivalent_cars>>),
      El("subheader", "Cost Breakdown Over 10 Years", <<>>),
      El("pyplot", "Upfront Costs / Running Costs (10 years)",
         <<m.total_upfront_costs_gbp, FMul(FromInt(10), m.annual_running_costs)>>),
      El("write", "Notes", <<>>)>>

\* fault: the note of lines 113-114 written before the call of line 109
HandlerNoteFirst(land, outcome) ==
    <<El("write", "Note: suggested annual running costs", <<land, SuggestedRunningCosts(land)>>)>>
    \o (IF outcome.status = "ok" THEN Results(land, outcome.value)
        ELSE <<El("error", "Error: ", <<outcome.value>>)>>)

\* lines 108-151: the body of `if st.button("Calculate")`, given the call's outcome.
\* Only ValueError is caught; any other exception ends the script run.
Handler(land, outcome) ==
    IF outcome.status = "ok" THEN Results(land, outcome.value)
    ELSE IF outcome.status = "ValueError" THEN <<El("error", "Error: ", <<outcome.value>>)>>
    ELSE <<El("exception", outcome.value, <<>>)>>

Uncaught(outcome) == outcome.status \notin {"ok", "ValueError", "none"}

\* one run of the script from line 104 on; outcome.status = "none": the button was not clicked
Page(land, outcome) ==
    Header
    \o (IF outcome.status = "none" THEN <<>> ELSE Handler(land, outcome))
    \o (IF Uncaught(outcome) THEN <<>> ELSE Footer)

(***************************************************************************)
(* Widget ranges (lines 93-101) and the values the model lets the user     *)
(* pick from them.                                                         *)
(***************************************************************************)
LandMin == 100
LandMax == 1000000
LandStep == 1000
LandDefault == 10000
RunningMax == 1000000
UpfrontMax == 100

\* sorted(cities.keys())[0]
DefaultCity == "Beijing, China"
LatitudeDefault == Dec(515, 10)

LandStops == {0, 666, 667}
LandChoices == {FromInt(LandMin + LandStep * k) : k \in LandStops}
LatitudeChoices == {FromInt(-90), FromInt(0), Dec(515, 10), FromInt(90)}
PriceChoices == {Dec(5, 100), Dec(20, 100)}
UpfrontChoices == {FromInt(0), FromInt(UpfrontMax)}
RunningChoices == {FromInt(0), FromInt(RunningMax)}

CurrentArgs ==
    Args(in_latitude, in_land_size_m2, in_electricity_price_gbp_per_kwh,
         in_upfront_costs_per_m2, in_annual_running_costs)

CallOf(fn, args, outcome) == [fn |-> fn, args |-> args, outcome |-> outcome]
NoCall == CallOf("none", <<>>, NoOutcome)

\* line 101: the slider refuses a default outside [min_value, max_value]; the run ends
\* there with a StreamlitAPIException and annual_running_costs is never assigned
OutOfRange(value) == FGt(value, FromInt(RunningMax)) \/ FGt(FZero, value)
Unassigned == [kind |-> "unassigned", sgn |-> 0, man |-> <<>>, exp |-> 0]
SliderStart(value) == IF OutOfRange(value) THEN Unassigned ELSE value
SliderRejects == in_annual_running_costs = Unassigned

SliderError == <<El("exception", "StreamlitAPIException", <<>>)>>

\* a rerun without a click: lines 84-105, the button is False, then the footer
Rerun ==
    /\ call' = NoCall
    /\ rendered' = IF in_annual_running_costs' = Unassigned
                   THEN SliderError
                   ELSE Page(in_land_size_m2', NoOutcome)

Init ==
    /\ cities = CitiesTable
    /\ location_method = "Select city"
    /\ city = DefaultCity
    /\ in_latitude = CitiesTable[DefaultCity]
    /\ in_land_size_m2 = FromInt(LandDefault)
    /\ in_electricity_price_gbp_per_kwh = Dec(10, 100)
    /\ in_upfront_costs_per_m2 = FromInt(10)
    /\ in_annual_running_costs = SuggestedRunningCosts(FromInt(LandDefault))
    /\ call = NoCall
    /\ rendered = Page(FromInt(LandDefault), NoOutcome)
    /\ prev = NoCall

\* line 88: a widget that is not drawn in a run loses its state
ChooseLocationMethod(m) ==
    /\ m # location_method
    /\ location_method' = m
    /\ city' = DefaultCity
    /\ in_latitude' = IF m = "Select city" THEN cities[DefaultCity] ELSE LatitudeDefault
    /\ UNCHANGED <<cities, in_land_size_m2, in_electricity_price_gbp_per_kwh, in_upfront_costs_per_m2,
                   in_annual_running_costs, prev>>
    /\ Rerun

\* lines 90-91
SelectCity(c) ==
    /\ location_method = "Select city"
    /\ city' = c
    /\ in_latitude' = cities[c]
    /\ UNCHANGED <<cities, location_method, in_land_size_m2, in_electricity_price_gbp_per_kwh,
                   in_upfront_costs_per_m2, in_annual_running_costs, prev>>
    /\ Rerun

\* line 93
EnterLatitude(x) ==
    /\ location_method = "Enter latitude"
    /\ in_latitude' = x
    /\ UNCHANGED <<cities, location_method, city, in_land_size_m2, in_electricity_price_gbp_per_kwh,
                   in_upfront_costs_per_m2, in_annual_running_costs, prev>>
    /\ Rerun

\* lines 95 and 100-101: a new default makes the running-costs slider a new widget,
\* which starts at that default
SlideLandSize(v) ==
    /\ v # in_land_size_m2
    /\ in_land_size_m2' = v
    /\ in_annual_running_costs' = SliderStart(SuggestedRunningCosts(v))
    /\ UNCHANGED <<cities, location_method, city, in_latitude, in_electricity_price_gbp_per_kwh,
                   in_upfront_costs_per_m2, prev>>
    /\ Rerun

\* line 96
SlidePrice(v) ==
    /\ in_electricity_price_gbp_per_kwh' = v
    /\ UNCHANGED <<cities, location_method, city, in_latitude, in_land_size_m2,
                   in_upfront_costs_per_m2, in_annual_running_costs, prev>>
    /\ Rerun

\* line 97
SlideUpfrontCosts(v) ==
    /\ in_upfront_costs_per_m2' = v
    /\ UNCHANGED <<cities, location_method, city, in_latitude, in_land_size_m2,
                   in_electricity_price_gbp_per_kwh, in_annual_running_costs, prev>>
    /\ Rerun

\* line 101: the slider exists only in a run that got past its creation
SlideRunningCosts(v) ==
    /\ ~SliderRejects
    /\ in_annual_running_costs' = v
    /\ UNCHANGED <<cities, location_method, city, in_latitude, in_land_size_m2,
                   in_electricity_price_gbp_per_kwh, in_upfront_costs_per_m2, prev>>
    /\ Rerun

\* lines 107-151 and 157-164: a rerun in which st.button returns True
ClickCalculate ==
    /\ ~SliderRejects
    /\ call' = CallOf("calculate_solar_farm_metrics", CurrentArgs, Calculate(CurrentArgs))
    /\ rendered' = Page(in_land_size_m2, call'.outcome)
    /\ UNCHANGED <<cities, location_method, city, inputs, prev>>

Next ==
    \/ \E m \in {"Select city", "Enter latitude"} : ChooseLocationMethod(m)
    \/ \E c \in CityNames : SelectCity(c)
    \/ \E x \in LatitudeChoices : EnterLatitude(x)
    \/ \E v \in LandChoices : SlideLandSize(v)
    \/ \E v \in PriceChoices : SlidePrice(v)
    \/ \E v \in UpfrontChoices : SlideUpfrontCosts(v)
    \/ \E v \in RunningChoices : SlideRunningCosts(v)
    \/ ClickCalculate

Spec == Init /\ [][Next]_vars

(***************************************************************************)
(* The two functions called directly, as a test or an importing module     *)
(* calls them: the arguments are any floats, not only those the widgets    *)
(* can produce.  CallSpec applies one function to each argument tuple.     *)
(***************************************************************************)
CallLatitudes ==
    {FromInt(0), Dec(515, 10), Dec(-515, 10), Dec(-3387, 100), FromInt(90), FromInt(-90),
     Dec(9001, 100), FromInt(91), FromInt(-91)}
CallLands == {FromInt(0), FromInt(7140), FromInt(10000)}
CallPrices == {FromInt(0), Dec(10, 100)}
CallUpfronts == {FromInt(0), FromInt(10)}
CallRunningCosts == {FromInt(0), FromInt(1500), FromInt(200000)}

Idle ==
    /\ cities = CitiesTable
    /\ location_method = "Enter latitude"
    /\ city = DefaultCity
    /\ call = NoCall
    /\ rendered = <<>>
    /\ prev = NoCall

CallInit ==
    /\ Idle
    /\ in_latitude \in CallLatitudes
    /\ in_land_size_m2 \in CallLands
    /\ in_electricity_price_gbp_per_kwh \in CallPrices
    /\ in_upfront_costs_per_m2 \in CallUpfronts
    /\ in_annual_running_costs \in CallRunningCosts

\* lines 29-35
CallEstimate ==
    /\ call' = CallOf("estimate_peak_sun_hours", <<in_latitude>>,
                      estimate_peak_sun_hours(in_latitude))
    /\ UNCHANGED <<cities, location_method, city, inputs, rendered, prev>>

\* lines 38-80
CallCalculate ==
    /\ call' = CallOf("calculate_solar_farm_metrics", CurrentArgs, Calculate(CurrentArgs))
    /\ UNCHANGED <<cities, location_method, city, inputs, rendered, prev>>

CallNext ==
    \/ call = NoCall /\ CallEstimate
    \/ call = NoCall /\ CallCalculate
    \/ call = NoCall /\ ClickCalculate

CallSpec == CallInit /\ [][CallNext]_vars

(***************************************************************************)
(* A session of calls: the arguments change between calls and an earlier   *)
(* call of calculate_solar_farm_metrics is remembered in prev.             *)
(***************************************************************************)
SessionLatitudes == {Dec(515, 10), Dec(-3387, 100), FromInt(91)}
SessionLands == {FromInt(0), FromInt(10000)}
SessionArgs ==
    {Args(lat, land, Dec(10, 100), FromInt(10), FromInt(1500)) :
        lat \in SessionLatitudes, land \in SessionLands}

SessionInit ==
    /\ Idle
    /\ \E a \in SessionArgs :
          /\ in_latitude = a.latitude
          /\ in_land_size_m2 = a.land_size_m2
          /\ in_electricity_price_gbp_per_kwh = a.electricity_price_gbp_per_kwh
          /\ in_upfront_costs_per_m2 = a.upfront_costs_per_m2
          /\ in_annual_running_costs = a.annual_running_costs

Remember ==
    /\ call.fn = "calculate_solar_farm_metrics"
    /\ prev' = call
    /\ call' = NoCall
    /\ UNCHANGED <<cities, location_method, city, inputs, rendered>>

ChangeArguments(a) ==
    /\ in_latitude' = a.latitude
    /\ in_land_size_m2' = a.land_size_m2
    /\ in_electricity_price_gbp_per_kwh' = a.electricity_price_gbp_per_kwh
    /\ in_upfront_costs_per_m2' = a.upfront_costs_per_m2
    /\ in_annual_running_costs' = a.annual_running_costs
    /\ UNCHANGED <<cities, location_method, city, call, rendered, prev>>

SessionNext ==
    \/ CallEstimate
    \/ CallCalculate
    \/ Remember
    \/ \E a \in SessionArgs : ChangeArguments(a)

SessionSpec == SessionInit /\ [][SessionNext]_vars

(***************************************************************************)
(* Properties.                                                             *)
(***************************************************************************)
ValueErrorMessage == "Latitude must be between -90 and 90 degrees."
ValidLatitude(x) == FGe(FromInt(90), FAbs(x))
Estimated == call.fn = "estimate_peak_sun_hours"
Calculated == call.fn = "calculate_solar_farm_metrics"

\* 6 - 4 * |x| / 90
SunHoursFormula(x) == FSub(FromInt(6), FDiv(FMul(FromInt(4), FAbs(x)), FromInt(90)))

InSunHoursRange(h) == FGe(h, FromInt(2)) /\ FGe(FromInt(6), h)

\* C1: for every latitude in [-90, 90] estimate_peak_sun_hours returns 6 - 4*|latitude|/90,
\* a value in [2, 6]: 6 at latitude 0, 2 at latitudes 90 and -90, and the same value at x
\* and at -x.
C1_SunHoursFormula ==
    (Estimated /\ ValidLatitude(in_latitude)) =>
        /\ call.outcome.status = "ok"
        /\ call.outcome.value = SunHoursFormula(in_latitude)
        /\ InSunHoursRange(call.outcome.value)
        /\ (IsZero(in_latitude) => call.outcome.value = FromInt(6))
        /\ (FAbs(in_latitude) = FromInt(90) => call.outcome.value = FromInt(2))
        /\ call.outcome = estimate_peak_sun_hours(FNeg(in_latitude))

C1_Witness ==
    /\ Estimated
    /\ in_latitude = FromInt(-90)
    /\ call.outcome = Return(FromInt(2))

\* C2: estimate_peak_sun_hours fails with ValueError (InvalidInput), and so returns no
\* sun-hours value, exactly when |latitude| > 90; it has no other outcome than a value or
\* that error.
C2_InvalidInputIffOutOfRange ==
    Estimated =>
        /\ call.outcome.status \in {"ok", "ValueError"}
        /\ (call.outcome.status = "ValueError" <=> FGt(FAbs(in_latitude), FromInt(90)))
        /\ (call.outcome.status = "ValueError" => call.outcome.value = ValueErrorMessage)

C2_Witness ==
    /\ Estimated
    /\ in_latitude = FromInt(-91)
    /\ call.outcome = Raise("ValueError", ValueErrorMessage)

\* C3: a call of calculate_solar_farm_metrics with |latitude| > 90 fails with the
\* estimator's ValueError whatever the other four arguments are, and returns no metrics:
\* its outcome is the exception alone.
C3_InvalidInputPropagates ==
    (Calculated /\ ~ValidLatitude(in_latitude)) =>
        call.outcome = Raise("ValueError", ValueErrorMessage)

C3_Witness ==
    /\ Calculated
    /\ in_latitude = FromInt(91)
    /\ in_land_size_m2 = FromInt(10000)
    /\ call.outcome.status = "ValueError"

Finite(x) == x.kind = "fin"
NonNegativeFinite(x) == Finite(x) /\ (x.sgn = 0 \/ IsZero(x))

BreakEvenRule(m) ==
    IF FGe(m.annual_running_costs, m.annual_revenue_gbp)
    THEN m.break_even_years = PosInf
    ELSE /\ m.break_even_years = FDiv(m.total_upfront_costs_gbp, m.net_annual_profit_gbp)
         /\ NonNegativeFinite(m.break_even_years)
         /\ FGt(m.net_annual_profit_gbp, FZero)

\* C4: for a valid latitude and non-negative inputs, break_even_years is +infinity when
\* the annual running cost is at least the annual revenue, and otherwise it is the total
\* upfront cost over the net annual profit, a finite non-negative number.
C4_BreakEven ==
    (Calculated /\ ValidLatitude(in_latitude)) =>
        call.outcome.status = "ok" /\ BreakEvenRule(call.outcome.value)

C4_Witness ==
    /\ Calculated
    /\ in_land_size_m2 = FromInt(10000)
    /\ in_electricity_price_gbp_per_kwh = Dec(10, 100)
    /\ in_annual_running_costs = FromInt(200000)
    /\ call.outcome.status = "ok"
    /\ call.outcome.value.break_even_years = PosInf

MetricNames ==
    {"annual_energy_kwh", "annual_revenue_gbp", "total_upfront_costs_gbp", "annual_running_costs",
     "net_annual_profit_gbp", "break_even_years", "annual_carbon_offset_tonnes",
     "pitches_equivalent", "number_of_homes", "equivalent_cars"}

\* the spec's formula chain, each field from the arguments a and the fields before it
FormulaChain(m, a) ==
    /\ DOMAIN m = MetricNames
    /\ m.annual_energy_kwh =
          FMul(FMul(FDiv(a.land_size_m2, FromInt(10)), SunHoursFormula(a.latitude)), FromInt(365))
    /\ m.annual_revenue_gbp = FMul(m.annual_energy_kwh, a.electricity_price_gbp_per_kwh)
    /\ m.total_upfront_costs_gbp = FMul(a.upfront_costs_per_m2, a.land_size_m2)
    /\ m.annual_running_costs = a.annual_running_costs
    /\ m.net_annual_profit_gbp = FSub(m.annual_revenue_gbp, a.annual_running_costs)
    /\ BreakEvenRule(m)
    /\ m.annual_carbon_offset_tonnes = FDiv(FMul(m.annual_energy_kwh, Dec(5, 10)), FromInt(1000))
    /\ m.pitches_equivalent = FDiv(a.land_size_m2, FromInt(7140))
    /\ m.number_of_homes = FDiv(m.annual_energy_kwh, FromInt(3500))
    /\ m.equivalent_cars = FDiv(m.annual_carbon_offset_tonnes, Dec(46, 10))

\* x is n / tenpow when rounded to that many decimals
Near(x, n, tenpow) ==
    FGe(x, Dec(2 * n - 1, 2 * tenpow)) /\ FGe(Dec(2 * n + 1, 2 * tenpow), x)

ExampleArgs == Args(Dec(515, 10), FromInt(10000), Dec(10, 100), FromInt(10), FromInt(1500))

ExampleValues(m) ==
    /\ Near(m.annual_energy_kwh, 13545556, 10)
    /\ Near(m.annual_revenue_gbp, 13545556, 100)
    /\ m.total_upfront_costs_gbp = FromInt(100000)
    /\ Near(m.net_annual_profit_gbp, 13395556, 100)
    /\ Near(m.break_even_years, 75, 100)
    /\ Near(m.annual_carbon_offset_tonnes, 67728, 100)
    /\ Near(m.pitches_equivalent, 140, 100)
    /\ Near(m.number_of_homes, 3870, 10)
    /\ Near(m.equivalent_cars, 1472, 10)

\* C5: for a valid latitude and non-negative inputs the call returns the ten fields of the
\* formula chain (energy = land/10 * sun hours * 365, revenue = energy * price, upfront =
\* rate * land, the running cost unchanged, net = revenue - running cost, break-even,
\* carbon = energy * 0.5 / 1000, pitches = land / 7140, homes = energy / 3500, cars =
\* carbon / 4.6), and for (51.5, 10000, 0.10, 10, 1500) they round to the spec's figures.
C5_FormulaChain ==
    (Calculated /\ ValidLatitude(in_latitude)) =>
        /\ call.outcome.status = "ok"
        /\ FormulaChain(call.outcome.value, CurrentArgs)
        /\ (CurrentArgs = ExampleArgs => ExampleValues(call.outcome.value))

C5_Witness ==
    /\ Calculated
    /\ CurrentArgs = ExampleArgs
    /\ call.outcome.status = "ok"
    /\ call.outcome.value.total_upfront_costs_gbp = FromInt(100000)

\* C6: calculate_solar_farm_metrics has no failure other than the ValueError of an invalid
\* latitude: for a latitude in [-90, 90] and non-negative inputs, zeros included, it
\* returns its ten fields, and no division by zero is reached.
C6_NoOtherFailure ==
    Calculated =>
        /\ call.outcome.status \in {"ok", "ValueError"}
        /\ (ValidLatitude(in_latitude) =>
              call.outcome.status = "ok" /\ DOMAIN call.outcome.value = MetricNames)

C6_Witness ==
    /\ Calculated
    /\ IsZero(in_land_size_m2)
    /\ IsZero(in_electricity_price_gbp_per_kwh)
    /\ IsZero(in_upfront_costs_per_m2)
    /\ IsZero(in_annual_running_costs)
    /\ call.outcome.status = "ok"
    /\ IsZero(call.outcome.value.net_annual_profit_gbp)

Clicked == Calculated /\ rendered # <<>>
ResultElements == {"metric", "subheader", "pyplot"}

\* C7: when Calculate is clicked and the calculator fails with ValueError, the run renders
\* the error message and nothing of the results: no note, no metric, no land, homes or
\* cars text and no chart, before or after the message; only the page's title and footer
\* surround it.
C7_ErrorAloneIsRendered ==
    (Clicked /\ call.outcome.status = "ValueError") =>
        /\ rendered = Header \o <<El("error", "Error: ", <<ValueErrorMessage>>)>> \o Footer
        /\ \A i \in DOMAIN rendered :
              rendered[i].fn \notin ResultElements /\ rendered[i].text # "Note: suggested annual running costs"

C7_Witness ==
    /\ Clicked
    /\ in_latitude = Dec(9001, 100)
    /\ call.outcome.status = "ValueError"
    /\ \E i \in DOMAIN rendered : rendered[i].fn = "error"

MaxDoublings == 3
MaxFactor == 3

\* pitches_equivalent for a land size, the other four arguments being zero
PitchesOf(land) == Calculate(Args(FZero, land, FZero, FZero, FZero)).value.pitches_equivalent
Scaled(k, x) == FMul(FromInt(k), x)

PitchesIsQuotient(pitches, land) ==
    /\ pitches = FDiv(land, FromInt(7140))
    /\ pitches = PitchesOf(land)
    /\ (IsZero(land) => IsZero(pitches))
    /\ (land = FromInt(7140) => pitches = FromInt(1))

\* C9: pitches_equivalent is the float quotient land / 7140 whatever the other four
\* arguments are, 0 for land 0 and 1 for land 7140, and multiplying the land by a power of
\* two multiplies the value by it (up to 2^MaxDoublings here).
C9_PitchesScaleByDoubling ==
    (Calculated /\ call.outcome.status = "ok") =>
        /\ PitchesIsQuotient(call.outcome.value.pitches_equivalent, in_land_size_m2)
        /\ \A d \in 0..MaxDoublings :
              PitchesOf(Scaled(2^d, in_land_size_m2))
                  = Scaled(2^d, call.outcome.value.pitches_equivalent)

\* C9 as stated: the same with every factor k (up to MaxFactor here)
C9_PitchesLinearInEveryFactor ==
    (Calculated /\ call.outcome.status = "ok") =>
        /\ PitchesIsQuotient(call.outcome.value.pitches_equivalent, in_land_size_m2)
        /\ \A k \in 1..MaxFactor :
              PitchesOf(Scaled(k, in_land_size_m2))
                  = Scaled(k, call.outcome.value.pitches_equivalent)

C9_Witness ==
    /\ Calculated
    /\ in_land_size_m2 = FromInt(10000)
    /\ in_latitude = Dec(515, 10)
    /\ in_annual_running_costs = FromInt(1500)
    /\ call.outcome.status = "ok"
    /\ PitchesOf(Scaled(2, in_land_size_m2)) = Scaled(2, call.outcome.value.pitches_equivalent)

\* C10: every input the widgets hand to the calculator is inside the range of its widget:
\* |latitude| <= 90, the land size within [LandMin, LandMax], and the default of the
\* running-costs slider, 15 * (land_size / 10), within that slider's [0, RunningMax].
C10_InputsWithinWidgetRanges ==
    /\ ValidLatitude(in_latitude)
    /\ FGe(in_land_size_m2, FromInt(LandMin)) /\ FGe(FromInt(LandMax), in_land_size_m2)
    /\ ~OutOfRange(SuggestedRunningCosts(in_land_size_m2))
====
